---- MODULE Spec2Model ----
(***************************************************************************)
(* Verification model of the Explainable-AI repository: the training and   *)
(* conversion scripts (as processes acting on a file system), and the      *)
(* HTTP prediction handlers with their shared Grad-CAM objects.            *)
(***************************************************************************)
EXTENDS Integers, Sequences, FiniteSets, TLC

VARIABLES
    \* ---- file-based scripts (train_model, converters) ----
    fs,          \* set of paths that exist on disk
    script,      \* the script / function currently running, "none" when idle
    pc,          \* its position
    arg,         \* its argument (model name, or tflite output path)
    ret,         \* its return value: "none" while running
    attempts,    \* number of converter.convert() calls made by this run
    failures,    \* number of those calls that raised
    recovery,    \* TRUE once the run has entered a fallback / retry path
    loads,       \* number of load_model calls made by this run
    written,     \* paths created or overwritten by this run
    df_cols,     \* train_model: columns of the data frame read from the CSV
    req_col,     \* train_model: the target_col argument
    target_col,  \* train_model: the local target_col after auto-detection
    trained,     \* dataset names for which train_model returned a model
    converted,   \* model names for which convert_to_tflite returned True
    \* ---- PyTorch pneumonia services (app/main.py, app/routes/predictions.py) ----
    net,         \* the weights both services loaded into PneumoniaModel
    gc,          \* per service, the fields of its module-level GradCAM object
    req,         \* per request, the state of its handler coroutine
    loop,        \* per service, the request its event loop is running (0: none)
    \* ---- the other programs, one record each ----
    tf,          \* main.py: the TensorFlow /predict handler
    imp,         \* the import of app/routes/predictions.py
    ho,          \* train.py and the consumers of the model file it saves
    skin,        \* organize_dataset.py, train_skin_cancer.py, convert_skin_tflite.py
    cli,         \* convert_stroke_tflite.py run from the command line
    feat,        \* the stroke feature and risk-level computations on one input
    stp,         \* train_stroke_model.py: the training pipeline
    xm           \* an ExplainableHealthcareModel instance

scriptVars == <<fs, script, pc, arg, ret, attempts, failures, recovery, loads,
                written, df_cols, req_col, target_col, trained, converted>>

serveVars == <<net, gc, req, loop>>

strokeVars == <<cli, feat, stp, xm>>

vars == <<scriptVars, serveVars, tf, imp, ho, skin, strokeVars>>

\* a step of one program leaves the state of the others alone
ScriptsOnly == UNCHANGED <<serveVars, tf, imp, ho, skin, strokeVars>>
ServeOnly == UNCHANGED <<scriptVars, tf, imp, ho, skin, strokeVars>>
TfOnly == UNCHANGED <<scriptVars, serveVars, imp, ho, skin, strokeVars>>
ImportOnly == UNCHANGED <<scriptVars, serveVars, tf, ho, skin, strokeVars>>
HandoffOnly == UNCHANGED <<scriptVars, serveVars, tf, imp, skin, strokeVars>>
SkinOnly == UNCHANGED <<scriptVars, serveVars, tf, imp, ho, strokeVars>>
OthersIdle == UNCHANGED <<serveVars, tf, imp, ho, skin>>
CliOnly == OthersIdle /\ UNCHANGED <<feat, stp, xm>>
FeatOnly == OthersIdle /\ UNCHANGED <<scriptVars, cli, stp, xm>>
PipelineOnly == OthersIdle /\ UNCHANGED <<scriptVars, cli, feat, xm>>
ExplainOnly == OthersIdle /\ UNCHANGED <<scriptVars, cli, feat, stp>>

(***************************************************************************)
(* Paths                                                                   *)
(***************************************************************************)
\* str.lower() on the two model names used by the __main__ blocks
Lower(name) ==
    CASE name = "Heart" -> "heart"
      [] name = "Diabetes" -> "diabetes"
      [] OTHER -> name

ModelNames == {"Heart", "Diabetes"}

keras_path(name) == "models/" \o Lower(name) \o "_model.keras"
tflite_path(name) == "assets/" \o Lower(name) \o "_model.tflite"
saved_model_path == "models/temp_saved_model"

mappings_path(name) == "assets/" \o Lower(name) \o "_mappings.json"
scaler_path(name) == "assets/" \o Lower(name) \o "_scaler.json"
importance_path(name) == "assets/" \o Lower(name) \o "_feature_importance.json"
metadata_path(name) == "assets/" \o Lower(name) \o "_metadata.json"
guide_path(name) == "assets/" \o Lower(name) \o "_flutter_guide.json"

\* guide["files_needed"] of create_flutter_guide
files_needed(name) ==
    << Lower(name) \o "_model.tflite",
       Lower(name) \o "_scaler.json",
       Lower(name) \o "_mappings.json",
       Lower(name) \o "_feature_importance.json",
       Lower(name) \o "_metadata.json" >>

Range(s) == {s[i] : i \in DOMAIN s}

(***************************************************************************)
(* Common steps of a script run                                            *)
(***************************************************************************)
NoCols == {"<no data frame>"}

\* the run-local state of a script that has just been started
Fresh(s, a, entry, col) ==
    /\ script' = s /\ arg' = a /\ pc' = entry /\ ret' = "none"
    /\ attempts' = 0 /\ failures' = 0 /\ recovery' = FALSE /\ loads' = 0
    /\ written' = {} /\ df_cols' = NoCols /\ req_col' = col /\ target_col' = col

\* an exception that no handler of the script catches
Raise == ret' = "raised" /\ pc' = "done"
Return(v) == ret' = v /\ pc' = "done"

Write(p) == fs' = fs \cup {p} /\ written' = written \cup {p}

\* the process ends; the disk and the history sets are what is left
Finish ==
    /\ script # "none" /\ pc = "done"
    /\ ~(script = "convert_to_tflite" /\ ret = "True" /\ guide_path(arg) \notin written)
    /\ script' = "none" /\ pc' = "idle" /\ arg' = "" /\ ret' = "none"
    /\ attempts' = 0 /\ failures' = 0 /\ recovery' = FALSE /\ loads' = 0
    /\ written' = {} /\ df_cols' = NoCols /\ req_col' = "" /\ target_col' = ""
    /\ UNCHANGED <<fs, trained, converted>>
    /\ ScriptsOnly

At(s, p) == script = s /\ pc = p

(***************************************************************************)
(* Clinical_Risk_Prediction.py: train_model and preprocess_and_encode      *)
(***************************************************************************)
\* columns a CSV may have; "sex" holds text (dtype object)
Columns == {"id", "age", "sex", "target", "Outcome"}
TextColumns == {"sex"}
CsvMissing == {"<FileNotFoundError>"}

\* target_col arguments: the two of __main__, and one naming no usual column
TargetArgs == {"target", "Outcome", "diagnosis"}

alternatives == <<"output", "num", "Outcome", "HeartDisease", "class", "target">>
drop_cols == {"id", "dataset"}

\* the first alternative that is a column, or col itself when none is
RECURSIVE FirstAlternative(_, _, _)
FirstAlternative(cols, col, i) ==
    IF i > Len(alternatives) THEN col
    ELSE IF alternatives[i] \in cols THEN alternatives[i]
    ELSE FirstAlternative(cols, col, i + 1)

\* step 2 of train_model: the target column after auto-detection
DetectTarget(cols, col) ==
    IF col \notin cols THEN FirstAlternative(cols, col, 1) ELSE col

\* the columns preprocess_and_encode label-encodes (the keys of mappings)
mappings(cols) == (cols \ drop_cols) \cap TextColumns

StartTrain ==
    /\ script = "none"
    /\ \E name \in ModelNames, col \in TargetArgs :
          Fresh("train_model", name, "load_csv", col)
    /\ UNCHANGED <<fs, trained, converted>>
    /\ ScriptsOnly

\* 1. Load Data: FileNotFoundError is caught and None returned
TM_LoadCsv ==
    /\ At("train_model", "load_csv")
    /\ \E csv \in {CsvMissing} \cup (SUBSET Columns) :
          IF csv = CsvMissing
          THEN Return("None") /\ UNCHANGED df_cols
          ELSE df_cols' = csv /\ pc' = "detect" /\ UNCHANGED ret
    /\ UNCHANGED <<fs, script, arg, attempts, failures, recovery, loads, written,
                   req_col, target_col, trained, converted>>
    /\ ScriptsOnly

\* a bug train_model does not have: the error is printed without returning
TargetNotFound_FallThrough == pc' = "preprocess" /\ UNCHANGED ret

\* where train_model goes when the target column is not found
TargetNotFound == Return("None")

\* 2. Auto-Detect Target Column
TM_DetectTarget ==
    /\ At("train_model", "detect")
    /\ target_col' = DetectTarget(df_cols, target_col)
    /\ IF target_col' \notin df_cols
       THEN TargetNotFound
       ELSE pc' = "preprocess" /\ UNCHANGED ret
    /\ UNCHANGED <<fs, script, arg, attempts, failures, recovery, loads, written,
                   df_cols, req_col, trained, converted>>
    /\ ScriptsOnly

\* 3. Clean & Encode: preprocess_and_encode drops id/dataset, encodes the text
\* columns and saves the mappings only when there are any
TM_Preprocess ==
    /\ At("train_model", "preprocess")
    /\ df_cols' = df_cols \ drop_cols
    /\ IF mappings(df_cols) # {}
       THEN Write(mappings_path(arg))
       ELSE UNCHANGED <<fs, written>>
    /\ pc' = "split"
    /\ UNCHANGED <<script, arg, ret, attempts, failures, recovery, loads,
                   req_col, target_col, trained, converted>>
    /\ ScriptsOnly

\* 4-5. stratified split (raises on a class with a single member) and scaling
\* (raises when X has no feature column); the scaler parameters are saved
TM_SplitScale ==
    /\ At("train_model", "split")
    /\ \E ok \in BOOLEAN :
          IF ok /\ df_cols \ {target_col} # {}
          THEN Write(scaler_path(arg)) /\ pc' = "fit" /\ UNCHANGED ret
          ELSE Raise /\ UNCHANGED <<fs, written>>
    /\ UNCHANGED <<script, arg, attempts, failures, recovery, loads,
                   df_cols, req_col, target_col, trained, converted>>
    /\ ScriptsOnly

\* 6-9. class weights, model.fit, model.evaluate
TM_Fit ==
    /\ At("train_model", "fit")
    /\ \E ok \in BOOLEAN :
          IF ok THEN pc' = "save" /\ UNCHANGED ret ELSE Raise
    /\ UNCHANGED <<fs, script, arg, attempts, failures, recovery, loads, written,
                   df_cols, req_col, target_col, trained, converted>>
    /\ ScriptsOnly

\* 10-12. feature importance, Keras model and metadata are saved; the model
\* is returned
TM_Save ==
    /\ At("train_model", "save")
    /\ LET out == {importance_path(arg), keras_path(arg), metadata_path(arg)}
       IN  fs' = fs \cup out /\ written' = written \cup out
    /\ Return("model")
    /\ trained' = trained \cup {arg}
    /\ UNCHANGED <<script, arg, attempts, failures, recovery, loads,
                   df_cols, req_col, target_col, converted>>
    /\ ScriptsOnly


(***************************************************************************)
(* Clinical_Risk_convter.py: convert_to_tflite, try_alternative_conversion *)
(* and the __main__ loop that writes the Flutter guide                     *)
(***************************************************************************)
StartClinical ==
    /\ script = "none"
    /\ \E name \in ModelNames : Fresh("convert_to_tflite", name, "check", "")
    /\ UNCHANGED <<fs, trained, converted>>
    /\ ScriptsOnly

\* whether convert_to_tflite goes on after looking for its input
KerasModelFound(path) == path \in fs

\* lines 16-19: the input must exist
CC_Check ==
    /\ At("convert_to_tflite", "check")
    /\ IF KerasModelFound(keras_path(arg))
       THEN pc' = "load" /\ UNCHANGED ret
       ELSE Return("False")
    /\ UNCHANGED <<fs, script, arg, attempts, failures, recovery, loads, written,
                   df_cols, req_col, target_col, trained, converted>>
    /\ ScriptsOnly

\* lines 21-47: load_model, BatchNorm clone, concrete function; outside any try
CC_Load ==
    /\ At("convert_to_tflite", "load")
    /\ loads' = loads + 1
    /\ \E ok \in BOOLEAN :
          IF ok THEN pc' = "convert" /\ UNCHANGED ret ELSE Raise
    /\ UNCHANGED <<fs, script, arg, attempts, failures, recovery, written,
                   df_cols, req_col, target_col, trained, converted>>
    /\ ScriptsOnly

\* the except branch of convert_to_tflite (lines 63-66)
ClinicalExcept == pc' = "alt_save" /\ recovery' = TRUE

\* line 50: converter.convert()
CC_Convert ==
    /\ At("convert_to_tflite", "convert")
    /\ attempts' = attempts + 1
    /\ \E ok \in BOOLEAN :
          IF ok
          THEN pc' = "save" /\ UNCHANGED <<failures, recovery>>
          ELSE failures' = failures + 1 /\ ClinicalExcept
    /\ UNCHANGED <<fs, script, arg, ret, loads, written,
                   df_cols, req_col, target_col, trained, converted>>
    /\ ScriptsOnly

\* lines 52-61: write the file, verify (its result is dropped), return True
CC_Save ==
    /\ At("convert_to_tflite", "save")
    /\ \E ok \in BOOLEAN :
          IF ok
          THEN /\ Write(tflite_path(arg)) /\ Return("True")
               /\ UNCHANGED recovery
          ELSE /\ ClinicalExcept
               /\ UNCHANGED <<fs, written, ret>>
    /\ UNCHANGED <<script, arg, attempts, failures, loads,
                   df_cols, req_col, target_col, trained, converted>>
    /\ ScriptsOnly

\* lines 95-98: model.save to the temporary SavedModel directory
Alt_Save ==
    /\ At("convert_to_tflite", "alt_save")
    /\ \E ok \in BOOLEAN :
          IF ok
          THEN Write(saved_model_path) /\ pc' = "alt_convert" /\ UNCHANGED ret
          ELSE Return("False") /\ UNCHANGED <<fs, written>>
    /\ UNCHANGED <<script, arg, attempts, failures, recovery, loads,
                   df_cols, req_col, target_col, trained, converted>>
    /\ ScriptsOnly

\* lines 100-104: the second conversion, from the SavedModel
Alt_Convert ==
    /\ At("convert_to_tflite", "alt_convert")
    /\ attempts' = attempts + 1
    /\ \E ok \in BOOLEAN :
          IF ok
          THEN pc' = "alt_write" /\ UNCHANGED <<failures, ret>>
          ELSE failures' = failures + 1 /\ Return("False")
    /\ UNCHANGED <<fs, script, arg, recovery, loads, written,
                   df_cols, req_col, target_col, trained, converted>>
    /\ ScriptsOnly

\* lines 106-109: write the TFLite file
Alt_Write ==
    /\ At("convert_to_tflite", "alt_write")
    /\ \E ok \in BOOLEAN :
          IF ok
          THEN Write(tflite_path(arg)) /\ pc' = "alt_rmtree" /\ UNCHANGED ret
          ELSE Return("False") /\ UNCHANGED <<fs, written>>
    /\ UNCHANGED <<script, arg, attempts, failures, recovery, loads,
                   df_cols, req_col, target_col, trained, converted>>
    /\ ScriptsOnly

\* lines 111-115: remove the temporary directory, return True
Alt_Rmtree ==
    /\ At("convert_to_tflite", "alt_rmtree")
    /\ \E ok \in BOOLEAN :
          IF ok
          THEN fs' = fs \ {saved_model_path} /\ Return("True")
          ELSE Return("False") /\ UNCHANGED fs
    /\ UNCHANGED <<script, arg, attempts, failures, recovery, loads, written,
                   df_cols, req_col, target_col, trained, converted>>
    /\ ScriptsOnly

\* __main__, lines 244-251: the guide is created for a successful conversion
create_flutter_guide ==
    /\ At("convert_to_tflite", "done") /\ ret = "True"
    /\ guide_path(arg) \notin written
    /\ Write(guide_path(arg))
    /\ converted' = converted \cup {arg}
    /\ UNCHANGED <<script, pc, arg, ret, attempts, failures, recovery, loads,
                   df_cols, req_col, target_col, trained>>
    /\ ScriptsOnly


(***************************************************************************)
(* fix_and_convert.py: convert_robust                                      *)
(***************************************************************************)
robust_h5_path == "../models/pneumonia_model.h5"
robust_tflite_path == "../models/pneumonia_model.tflite"

StartRobust ==
    /\ script = "none"
    /\ Fresh("convert_robust", "", "load", "")
    /\ UNCHANGED <<fs, trained, converted>>
    /\ ScriptsOnly

\* lines 11-16: load_model in a try; any failure is printed and ends the run
CR_Load ==
    /\ At("convert_robust", "load")
    /\ loads' = loads + 1
    /\ \E ok \in BOOLEAN :
          IF ok /\ robust_h5_path \in fs
          THEN pc' = "concrete" /\ UNCHANGED ret
          ELSE Return("None")
    /\ UNCHANGED <<fs, script, arg, attempts, failures, recovery, written,
                   df_cols, req_col, target_col, trained, converted>>
    /\ ScriptsOnly

\* lines 18-36: concrete function and converter, outside any try
CR_Concrete ==
    /\ At("convert_robust", "concrete")
    /\ \E ok \in BOOLEAN :
          IF ok THEN pc' = "convert" /\ UNCHANGED ret ELSE Raise
    /\ UNCHANGED <<fs, script, arg, attempts, failures, recovery, loads, written,
                   df_cols, req_col, target_col, trained, converted>>
    /\ ScriptsOnly

\* a bug convert_robust does not have: converting once more after a failure
RobustExcept_Retry ==
    IF attempts = 0
    THEN pc' = "convert" /\ recovery' = TRUE /\ UNCHANGED ret
    ELSE Return("None") /\ UNCHANGED recovery

\* the except branch of convert_robust (lines 47-49): two prints
RobustExcept == Return("None") /\ UNCHANGED recovery

\* line 39: converter.convert()
CR_Convert ==
    /\ At("convert_robust", "convert")
    /\ attempts' = attempts + 1
    /\ \E ok \in BOOLEAN :
          IF ok
          THEN pc' = "save" /\ UNCHANGED <<failures, recovery, ret>>
          ELSE failures' = failures + 1 /\ RobustExcept
    /\ UNCHANGED <<fs, script, arg, loads, written,
                   df_cols, req_col, target_col, trained, converted>>
    /\ ScriptsOnly

\* lines 41-45: write the TFLite file, inside the same try
CR_Save ==
    /\ At("convert_robust", "save")
    /\ \E ok \in BOOLEAN :
          IF ok
          THEN Write(robust_tflite_path) /\ Return("None") /\ UNCHANGED recovery
          ELSE RobustExcept /\ UNCHANGED <<fs, written>>
    /\ UNCHANGED <<script, arg, attempts, failures, loads,
                   df_cols, req_col, target_col, trained, converted>>
    /\ ScriptsOnly


(***************************************************************************)
(* export_offline_xai.py: export_model                                     *)
(***************************************************************************)
export_MODEL_PATH == "models/pneumonia_model.h5"
export_tflite_path == "../explainable_ai/assets/pneumonia_xai_model.tflite"
export_json_path == "../explainable_ai/assets/pneumonia_weights.json"

StartExport ==
    /\ script = "none"
    /\ Fresh("export_model", "", "check", "")
    /\ UNCHANGED <<fs, trained, converted>>
    /\ ScriptsOnly

\* lines 20-23
EX_Check ==
    /\ At("export_model", "check")
    /\ IF export_MODEL_PATH \in fs
       THEN pc' = "load" /\ UNCHANGED ret
       ELSE Return("None")
    /\ UNCHANGED <<fs, script, arg, attempts, failures, recovery, loads, written,
                   df_cols, req_col, target_col, trained, converted>>
    /\ ScriptsOnly

\* lines 25-30: load_model in a try
EX_Load ==
    /\ At("export_model", "load")
    /\ loads' = loads + 1
    /\ \E ok \in BOOLEAN :
          IF ok THEN pc' = "build" /\ UNCHANGED ret ELSE Return("None")
    /\ UNCHANGED <<fs, script, arg, attempts, failures, recovery, written,
                   df_cols, req_col, target_col, trained, converted>>
    /\ ScriptsOnly

\* lines 32-71: find the last 4D layer (return when there is none), build the
\* multi-output model and its concrete function (an exception is not caught)
EX_Build ==
    /\ At("export_model", "build")
    /\ \E r \in {"ok", "no_layer", "raise"} :
          CASE r = "ok" -> pc' = "convert" /\ UNCHANGED ret
            [] r = "no_layer" -> Return("None")
            [] r = "raise" -> Raise
    /\ UNCHANGED <<fs, script, arg, attempts, failures, recovery, loads, written,
                   df_cols, req_col, target_col, trained, converted>>
    /\ ScriptsOnly

\* the except branch of lines 75-78: optimizations are cleared and
\* converter.convert() is called again
ExportExcept == pc' = "convert_plain" /\ recovery' = TRUE

\* lines 73-74: the first converter.convert()
EX_Convert ==
    /\ At("export_model", "convert")
    /\ attempts' = attempts + 1
    /\ \E ok \in BOOLEAN :
          IF ok
          THEN pc' = "write" /\ UNCHANGED <<failures, recovery>>
          ELSE failures' = failures + 1 /\ ExportExcept
    /\ UNCHANGED <<fs, script, arg, ret, loads, written,
                   df_cols, req_col, target_col, trained, converted>>
    /\ ScriptsOnly

\* line 78: the second converter.convert(), whose exception nothing catches
EX_ConvertPlain ==
    /\ At("export_model", "convert_plain")
    /\ attempts' = attempts + 1
    /\ \E ok \in BOOLEAN :
          IF ok
          THEN pc' = "write" /\ UNCHANGED <<failures, ret>>
          ELSE failures' = failures + 1 /\ Raise
    /\ UNCHANGED <<fs, script, arg, recovery, loads, written,
                   df_cols, req_col, target_col, trained, converted>>
    /\ ScriptsOnly

\* lines 80-87: makedirs and the TFLite file
EX_Write ==
    /\ At("export_model", "write")
    /\ \E ok \in BOOLEAN :
          IF ok
          THEN Write(export_tflite_path) /\ pc' = "weights" /\ UNCHANGED ret
          ELSE Raise /\ UNCHANGED <<fs, written>>
    /\ UNCHANGED <<script, arg, attempts, failures, recovery, loads,
                   df_cols, req_col, target_col, trained, converted>>
    /\ ScriptsOnly

\* lines 89-109: the classifier weights, in a try that prints the error
EX_Weights ==
    /\ At("export_model", "weights")
    /\ \E ok \in BOOLEAN :
          IF ok THEN Write(export_json_path) ELSE UNCHANGED <<fs, written>>
    /\ Return("None")
    /\ UNCHANGED <<script, arg, attempts, failures, recovery, loads,
                   df_cols, req_col, target_col, trained, converted>>
    /\ ScriptsOnly


(***************************************************************************)
(* convert_stroke_tflite.py: convert_keras_to_tflite                       *)
(***************************************************************************)
stroke_keras_model_path == "models/stroke_model.keras"
StrokeOutputs == {"assets/stroke_model.tflite", "assets/stroke_model_quantized.tflite"}

\* tflite_output_path.replace('.tflite', '_metadata.json')
stroke_metadata_path(out) ==
    CASE out = "assets/stroke_model.tflite" -> "assets/stroke_model_metadata.json"
      [] out = "assets/stroke_model_quantized.tflite"
            -> "assets/stroke_model_quantized_metadata.json"

StartStroke ==
    /\ script = "none"
    /\ \E out \in StrokeOutputs : Fresh("convert_keras_to_tflite", out, "check", "")
    /\ UNCHANGED <<fs, trained, converted>>
    /\ ScriptsOnly

\* a bug convert_keras_to_tflite does not have: no look at the input file
StrokeModelFound_Unchecked(path) == TRUE

\* whether convert_keras_to_tflite goes on after looking for its input
StrokeModelFound(path) == path \in fs

\* lines 28-32
CK_Check ==
    /\ At("convert_keras_to_tflite", "check")
    /\ IF StrokeModelFound(stroke_keras_model_path)
       THEN pc' = "load" /\ UNCHANGED ret
       ELSE Return("False")
    /\ UNCHANGED <<fs, script, arg, attempts, failures, recovery, loads, written,
                   df_cols, req_col, target_col, trained, converted>>
    /\ ScriptsOnly

\* a bug convert_keras_to_tflite does not have: the exception escapes
StrokeExcept_Uncaught == Raise

\* the except branch of lines 299-303: print, traceback, return False
StrokeExcept == Return("False")

\* lines 34-76: load_model and the concrete function
CK_Load ==
    /\ At("convert_keras_to_tflite", "load")
    /\ loads' = loads + 1
    /\ \E ok \in BOOLEAN :
          IF ok THEN pc' = "convert" /\ UNCHANGED ret ELSE StrokeExcept
    /\ UNCHANGED <<fs, script, arg, attempts, failures, recovery, written,
                   df_cols, req_col, target_col, trained, converted>>
    /\ ScriptsOnly

\* lines 77-99: converter.convert()
CK_Convert ==
    /\ At("convert_keras_to_tflite", "convert")
    /\ attempts' = attempts + 1
    /\ \E ok \in BOOLEAN :
          IF ok
          THEN pc' = "save" /\ UNCHANGED <<failures, ret>>
          ELSE failures' = failures + 1 /\ StrokeExcept
    /\ UNCHANGED <<fs, script, arg, recovery, loads, written,
                   df_cols, req_col, target_col, trained, converted>>
    /\ ScriptsOnly

\* lines 101-114: makedirs, write the TFLite file
CK_Save ==
    /\ At("convert_keras_to_tflite", "save")
    /\ \E ok \in BOOLEAN :
          IF ok
          THEN Write(arg) /\ pc' = "test" /\ UNCHANGED ret
          ELSE StrokeExcept /\ UNCHANGED <<fs, written>>
    /\ UNCHANGED <<script, arg, attempts, failures, recovery, loads,
                   df_cols, req_col, target_col, trained, converted>>
    /\ ScriptsOnly

\* lines 116-231: the test inference on the written file
CK_Test ==
    /\ At("convert_keras_to_tflite", "test")
    /\ \E ok \in BOOLEAN :
          IF ok THEN pc' = "metadata" /\ UNCHANGED ret ELSE StrokeExcept
    /\ UNCHANGED <<fs, script, arg, attempts, failures, recovery, loads, written,
                   df_cols, req_col, target_col, trained, converted>>
    /\ ScriptsOnly

\* lines 233-297: the metadata sidecar, then return True
CK_Metadata ==
    /\ At("convert_keras_to_tflite", "metadata")
    /\ \E ok \in BOOLEAN :
          IF ok
          THEN Write(stroke_metadata_path(arg)) /\ Return("True")
          ELSE StrokeExcept /\ UNCHANGED <<fs, written>>
    /\ UNCHANGED <<script, arg, attempts, failures, recovery, loads,
                   df_cols, req_col, target_col, trained, converted>>
    /\ ScriptsOnly


(***************************************************************************)
(* convert_stroke_tflite.py: __main__, batch_convert and the helper code   *)
(***************************************************************************)
flutter_helper_path == "assets/flutter_integration.dart"

\* batch_convert's conversions, by output path (lines 503-516)
batch_outputs == <<"assets/stroke_model.tflite", "assets/stroke_model_quantized.tflite">>

IdleCli ==
    cli = [pc |-> "idle", batch |-> FALSE, flutter_code |-> FALSE,
           todo |-> <<>>, status |-> 0, helper |-> FALSE]

\* lines 568-583: the arguments are parsed and the first conversion is called
Cli_Main ==
    /\ cli.pc = "idle" /\ script = "none"
    /\ \E batch \in BOOLEAN, flutter_code \in BOOLEAN, output \in StrokeOutputs :
          LET todo == IF batch THEN batch_outputs ELSE <<output>>
          IN  /\ cli' = [pc |-> "converting", batch |-> batch,
                         flutter_code |-> flutter_code, todo |-> Tail(todo),
                         status |-> 0, helper |-> FALSE]
              /\ Fresh("convert_keras_to_tflite", Head(todo), "check", "")
    /\ UNCHANGED <<fs, trained, converted>>
    /\ CliOnly

\* lines 520-548: batch_convert records each result and goes on; its summary
\* changes nothing, and __main__ then always generates the helper code
batch_convert ==
    /\ cli.pc = "converting" /\ cli.batch
    /\ At("convert_keras_to_tflite", "done")
    /\ IF ret = "raised"
       THEN /\ cli' = [cli EXCEPT !.pc = "exited", !.status = 1]
            /\ UNCHANGED scriptVars
       ELSE IF cli.todo # <<>>
       THEN /\ cli' = [cli EXCEPT !.todo = Tail(@)]
            /\ Fresh("convert_keras_to_tflite", Head(cli.todo), "check", "")
            /\ UNCHANGED <<fs, trained, converted>>
       ELSE /\ cli' = [cli EXCEPT !.pc = "helper"]
            /\ UNCHANGED scriptVars
    /\ CliOnly

\* lines 577-587: single conversion; exit(1) when it did not succeed
Cli_Single ==
    /\ cli.pc = "converting" /\ ~cli.batch
    /\ At("convert_keras_to_tflite", "done")
    /\ cli' = IF ret # "True" THEN [cli EXCEPT !.pc = "exited", !.status = 1]
              ELSE IF cli.flutter_code THEN [cli EXCEPT !.pc = "helper"]
              ELSE [cli EXCEPT !.pc = "exited", !.status = 0]
    /\ UNCHANGED scriptVars
    /\ CliOnly

\* lines 305-494: the Dart source is written; nothing catches a failure
create_flutter_helper_code ==
    /\ cli.pc = "helper"
    /\ \E ok \in BOOLEAN :
          IF ok
          THEN /\ fs' = fs \cup {flutter_helper_path}
               /\ cli' = [cli EXCEPT !.pc = "exited", !.status = 0, !.helper = TRUE]
          ELSE /\ UNCHANGED fs
               /\ cli' = [cli EXCEPT !.pc = "exited", !.status = 1]
    /\ UNCHANGED <<script, pc, arg, ret, attempts, failures, recovery, loads,
                   written, df_cols, req_col, target_col, trained, converted>>
    /\ CliOnly

\* the process has ended; the script may be run again on the disk it left
Cli_Again ==
    /\ cli.pc = "exited"
    /\ cli' = [pc |-> "idle", batch |-> FALSE, flutter_code |-> FALSE,
               todo |-> <<>>, status |-> 0, helper |-> FALSE]
    /\ script' = "none" /\ pc' = "idle" /\ arg' = "" /\ ret' = "none"
    /\ attempts' = 0 /\ failures' = 0 /\ recovery' = FALSE /\ loads' = 0
    /\ written' = {} /\ df_cols' = NoCols /\ req_col' = "" /\ target_col' = ""
    /\ UNCHANGED <<fs, trained, converted>>
    /\ CliOnly

(***************************************************************************)
(* model.py, gradcam.py and the two PyTorch handlers                       *)
(*                                                                         *)
(* PneumoniaModel is a ResNet-18 whose last stage (layer4, the Grad-CAM    *)
(* target layer) is followed by global average pooling and a two-class     *)
(* linear layer.  The model keeps that data flow on a small grid: two      *)
(* channels, a row of two positions.  An upload is modelled by the layer4  *)
(* activations it produces.  Logits are in units of ln 2, so that          *)
(* exp(logit) is a power of two and the softmax is an exact fraction.      *)
(***************************************************************************)
Apps == {"main", "router"}
Classes == {0, 1}
Channels == {1, 2}
Positions == {1, 2}

\* requests the services receive
MaxRequests == 2
Requests == 1..MaxRequests

\* layer4 outputs (after its ReLU, so never negative): the images the model
\* is run on light up the first channel from the left and the second channel
\* on the right only
Activations ==
    {a \in [Channels -> [Positions -> {0, 1}]] : a[1][1] >= a[1][2] /\ a[2][1] = 0}
ZeroActivations == [k \in Channels |-> [p \in Positions |-> 0]]

\* what a client may upload: an image, or bytes PIL cannot open
Uploads ==
    [valid : {TRUE}, act : Activations] \cup {[valid |-> FALSE, act |-> ZeroActivations]}

\* weights of model.fc = nn.Linear(512, 2) that a checkpoint may hold
Nets ==
    { [W |-> [c \in Classes |-> IF c = 0 THEN <<2, -2>> ELSE <<-2, 2>>],
       b |-> [c \in Classes |-> 0]],
      [W |-> [c \in Classes |-> IF c = 0 THEN <<-2, -2>> ELSE <<2, 2>>],
       b |-> [c \in Classes |-> IF c = 0 THEN 3 ELSE 0]] }

\* PneumoniaModel.forward after layer4: avgpool over the positions, then fc
Logits(n, act) ==
    [c \in Classes |->
        ((n.W[c][1] * (act[1][1] + act[1][2])) \div 2)
      + ((n.W[c][2] * (act[2][1] + act[2][2])) \div 2)
      + n.b[c]]

\* d logit[c] / d layer4 output: avgpool spreads fc's weight over the positions
Gradients(n, c) == [k \in Channels |-> [p \in Positions |-> n.W[c][k] \div 2]]

RECURSIVE Pow2(_)
Pow2(e) == IF e <= 0 THEN 1 ELSE 2 * Pow2(e - 1)

Min(a, b) == IF a <= b THEN a ELSE b
Max(a, b) == IF a >= b THEN a ELSE b

\* torch.softmax(logits, dim=1)[0] as numerators over the common denominator
\* p[0] + p[1]
Softmax(l) == [c \in Classes |-> Pow2(l[c] - Min(l[0], l[1]))]

\* np.argmax: the first index holding the largest value
ArgMax(p) == IF p[1] > p[0] THEN 1 ELSE 0

\* float(probs[pred_class]) as a fraction
Confidence(p, c) == [num |-> p[c], den |-> p[0] + p[1]]

\* cv2.resize of the row to twice its width (bilinear, pixel centres aligned,
\* borders replicated); the values are returned multiplied by 4
Resize(row) ==
    << 4 * row[1], 3 * row[1] + row[2], row[1] + 3 * row[2], 4 * row[2] >>

RECURSIVE MaxOf(_)
MaxOf(row) ==
    IF Len(row) = 1 THEN row[1] ELSE Max(row[1], MaxOf(SubSeq(row, 2, Len(row))))

\* GradCAM.generate after the backward pass (gradcam.py lines 25-32): channel
\* weights, weighted sum, relu, resize, division by the maximum.  The result
\* is the row num / den; den = 0 is numpy's 0/0, a row of NaN.
Cam(gradients, activations) ==
    LET weights == [k \in Channels |-> (gradients[k][1] + gradients[k][2]) \div 2]
        raw == [p \in Positions |->
                   weights[1] * activations[1][p] + weights[2] * activations[2][p]]
        relu == [p \in Positions |-> Max(raw[p], 0)]
        resized == Resize(<<relu[1], relu[2]>>)
    IN  [num |-> resized, den |-> MaxOf(resized)]

NoCapture == [req |-> 0, pass |-> "none", val |-> ZeroActivations]
NoCam == [num |-> <<0, 0, 0, 0>>, den |-> 0]
NoResponse == [prediction |-> "", confidence |-> [num |-> 0, den |-> 0], gradcam |-> NoCam]

IdleRequest ==
    [app |-> "main", upload |-> [valid |-> FALSE, act |-> ZeroActivations],
     pc |-> "idle", probs |-> [c \in Classes |-> 0], pred_class |-> 0,
     used_activations |-> NoCapture, used_gradients |-> NoCapture,
     outcome |-> "none", response |-> NoResponse]

\* a bug the handlers do not have: control may pass to another request at
\* every step, as it would if the handlers ran on worker threads
Suspends_Everywhere(p) == TRUE

\* positions at which a handler coroutine has handed control to the event
\* loop: before it is called, at its only await (file.read()), and at its end
Suspends(p) == p \in {"idle", "await_read", "done"}

\* the event loop of service a may run a step of request r
MayRun(r) == loop[req[r].app] \in {0, r}

\* after a step that leaves r at position p
Scheduled(r, p) ==
    loop' = [loop EXCEPT ![req[r].app] = IF Suspends(p) THEN 0 ELSE r]

\* a client posts an upload; the handler is called and awaits the body.
\* Requests are numbered in the order in which they arrive.
Arrive(r) ==
    /\ req[r].pc = "idle"
    /\ \A q \in 1..(r - 1) : req[q].pc # "idle"
    /\ \E a \in Apps, u \in Uploads :
          req' = [req EXCEPT ![r] = [IdleRequest EXCEPT !.app = a, !.upload = u,
                                                        !.pc = "await_read"]]
    /\ UNCHANGED <<net, gc, loop>>
    /\ ServeOnly

\* an exception in predict of app/main.py: nothing catches it
main_raise(q) == [q EXCEPT !.outcome = "raised", !.pc = "done"]

\* an exception in predict_pneumonia: except Exception -> HTTPException(500)
router_raise(q) == [q EXCEPT !.outcome = "http500", !.pc = "done"]

HandlerRaise(q) == IF q.app = "main" THEN main_raise(q) ELSE router_raise(q)

\* Image.open(...).convert("RGB"), transform(image).unsqueeze(0)
Decode(r) ==
    /\ req[r].pc = "await_read" /\ MayRun(r)
    /\ LET q == IF req[r].upload.valid
                THEN [req[r] EXCEPT !.pc = "infer"]
                ELSE HandlerRaise(req[r])
       IN  req' = [req EXCEPT ![r] = q] /\ Scheduled(r, q.pc)
    /\ UNCHANGED <<net, gc>>
    /\ ServeOnly

\* GradCAM.save_activation, the forward hook on layer4
save_activation(a, r, pass, output) ==
    [gc EXCEPT ![a].activations = [req |-> r, pass |-> pass, val |-> output]]

\* GradCAM.save_gradient, the backward hook on layer4
save_gradient(g, a, r, grad_output) ==
    [g EXCEPT ![a].gradients = [req |-> r, pass |-> "backward", val |-> grad_output]]

\* with torch.no_grad(): logits = model(x); probs = softmax; pred_class = argmax.
\* The forward hook fires on this pass too.
Infer(r) ==
    /\ req[r].pc = "infer" /\ MayRun(r)
    /\ LET probs == Softmax(Logits(net, req[r].upload.act))
       IN  req' = [req EXCEPT ![r].probs = probs, ![r].pred_class = ArgMax(probs),
                              ![r].pc = "gen_forward"]
    /\ gc' = save_activation(req[r].app, r, "no_grad", req[r].upload.act)
    /\ Scheduled(r, "gen_forward")
    /\ UNCHANGED net
    /\ ServeOnly

\* a bug generate does not have: it runs no forward pass of its own and
\* goes on with what the hook stored last
GenForward_Skipped(r) ==
    /\ req[r].pc = "gen_forward" /\ MayRun(r)
    /\ req' = [req EXCEPT ![r].pc = "gen_backward"]
    /\ Scheduled(r, "gen_backward")
    /\ UNCHANGED <<net, gc>>
    /\ ServeOnly

\* GradCAM.generate, line 21: output = self.model(x)
GenForward(r) ==
    /\ req[r].pc = "gen_forward" /\ MayRun(r)
    /\ gc' = save_activation(req[r].app, r, "generate", req[r].upload.act)
    /\ req' = [req EXCEPT ![r].pc = "gen_backward"]
    /\ Scheduled(r, "gen_backward")
    /\ UNCHANGED net
    /\ ServeOnly

\* GradCAM.generate, lines 22-23: zero_grad, output[:, class_idx].backward()
GenBackward(r) ==
    /\ req[r].pc = "gen_backward" /\ MayRun(r)
    /\ gc' = save_gradient(gc, req[r].app, r, Gradients(net, req[r].pred_class))
    /\ req' = [req EXCEPT ![r].pc = "gen_cam"]
    /\ Scheduled(r, "gen_cam")
    /\ UNCHANGED net
    /\ ServeOnly

\* the dictionary predict of app/main.py returns (lines 229-233)
main_response(probs, pred_class, cam) ==
    [prediction |-> IF pred_class = 1 THEN "PNEUMONIA" ELSE "NORMAL",
     confidence |-> Confidence(probs, pred_class),
     gradcam |-> cam]

\* a bug predict_pneumonia does not have: the label of the other class
router_response_Flipped(probs, pred_class, cam) ==
    [prediction |-> IF pred_class = 0 THEN "PNEUMONIA" ELSE "NORMAL",
     confidence |-> Confidence(probs, pred_class),
     gradcam |-> cam]

\* the dictionary predict_pneumonia returns (predictions.py lines 45-49)
router_response(probs, pred_class, cam) ==
    [prediction |-> IF pred_class = 1 THEN "PNEUMONIA" ELSE "NORMAL",
     confidence |-> Confidence(probs, pred_class),
     gradcam |-> cam]

\* GradCAM.generate, lines 25-32, reading self.gradients and self.activations;
\* then the handler returns its dictionary
GenCam(r) ==
    /\ req[r].pc = "gen_cam" /\ MayRun(r)
    /\ LET g == gc[req[r].app]
           cam == Cam(g.gradients.val, g.activations.val)
           resp == IF req[r].app = "main"
                   THEN main_response(req[r].probs, req[r].pred_class, cam)
                   ELSE router_response(req[r].probs, req[r].pred_class, cam)
       IN  req' = [req EXCEPT ![r].used_activations = g.activations,
                              ![r].used_gradients = g.gradients,
                              ![r].response = resp,
                              ![r].outcome = "json",
                              ![r].pc = "done"]
    /\ Scheduled(r, "done")
    /\ UNCHANGED <<net, gc>>
    /\ ServeOnly

DefaultNet == CHOOSE n \in Nets : n.b[0] = 0

IdleServe ==
    /\ gc = [a \in Apps |-> [activations |-> NoCapture, gradients |-> NoCapture]]
    /\ req = [r \in Requests |-> IdleRequest]
    /\ loop = [a \in Apps |-> 0]

(***************************************************************************)
(* main.py: the TensorFlow /predict handler                                *)
(***************************************************************************)
\* the sigmoid output is modelled on the grid n / ScoreDen, n = 0..ScoreDen
ScoreHalf == 150
ScoreDen == 2 * ScoreHalf

\* value * 10000 / ScoreDen rounded to an integer, ties to even: the digits
\* that f"{confidence*100:.2f}%" prints, as hundredths of a percent
FormatPercent(value) ==
    LET q == (value * 10000) \div ScoreDen
        r == (value * 10000) % ScoreDen
    IN  IF 2 * r > ScoreDen THEN q + 1
        ELSE IF 2 * r = ScoreDen THEN q + (q % 2)
        ELSE q

\* a bug predict does not have: >= in place of >
tf_result_Inclusive(score) == IF 2 * score >= ScoreDen THEN "PNEUMONIA" ELSE "NORMAL"

\* line 46: result = "PNEUMONIA" if score > 0.5 else "NORMAL"
tf_result(score) == IF 2 * score > ScoreDen THEN "PNEUMONIA" ELSE "NORMAL"

\* line 47: confidence = score if score > 0.5 else 1 - score
tf_confidence(score) == IF 2 * score > ScoreDen THEN score ELSE ScoreDen - score

IdleTf == tf = [pc |-> "idle", score |-> 0, prediction |-> "", confidence |-> 0]

\* lines 19-31: the image is read and preprocessed, model.predict gives the score
TF_Predict ==
    /\ tf.pc = "idle"
    /\ \E n \in 0..ScoreDen : tf' = [tf EXCEPT !.pc = "predicted", !.score = n]
    /\ TfOnly

\* lines 33-43: Grad-CAM heatmap, overlay, JPEG and base64 encoding
TF_Explain ==
    /\ tf.pc = "predicted"
    /\ tf' = [tf EXCEPT !.pc = "explained"]
    /\ TfOnly

\* lines 45-53: label, confidence and the returned dictionary
TF_Respond ==
    /\ tf.pc = "explained"
    /\ tf' = [tf EXCEPT !.pc = "done",
                        !.prediction = tf_result(tf.score),
                        !.confidence = FormatPercent(tf_confidence(tf.score))]
    /\ TfOnly

\* the next request
TF_Next ==
    /\ tf.pc = "done"
    /\ tf' = [pc |-> "idle", score |-> 0, prediction |-> "", confidence |-> 0]
    /\ TfOnly

(***************************************************************************)
(* app/routes/predictions.py: the import of the router module              *)
(***************************************************************************)
\* the third-party packages the router and the modules it imports need
ThirdParty ==
    {"fastapi", "PIL", "torch", "torchvision", "numpy", "cv2",
     "pandas", "sklearn", "shap", "lime", "matplotlib"}

LocalModules == {"model", "gradcam", "app.models.ml_models"}

\* what each local module imports at its top, and the names its body binds
ModuleNeeds(m) ==
    CASE m = "model" -> {"torch", "torchvision"}
      [] m = "gradcam" -> {"torch", "cv2", "numpy"}
      [] m = "app.models.ml_models" ->
            {"numpy", "pandas", "sklearn", "shap", "lime", "matplotlib"}

ModuleDefines(m) ==
    CASE m = "model" -> {"PneumoniaModel"}
      [] m = "gradcam" -> {"GradCAM"}
      [] m = "app.models.ml_models" ->
            {"ExplainableHealthcareModel", "train_heart_disease_model"}

\* lines 1-10 of predictions.py; package "" is the standard library
predictions_imports ==
    << [line |-> 1, package |-> "fastapi", module |-> "", name |-> ""],
       [line |-> 2, package |-> "PIL", module |-> "", name |-> ""],
       [line |-> 3, package |-> "", module |-> "", name |-> ""],
       [line |-> 4, package |-> "torch", module |-> "", name |-> ""],
       [line |-> 5, package |-> "torchvision", module |-> "", name |-> ""],
       [line |-> 6, package |-> "numpy", module |-> "", name |-> ""],
       [line |-> 8, package |-> "", module |-> "model", name |-> "PneumoniaModel"],
       [line |-> 9, package |-> "", module |-> "gradcam", name |-> "GradCAM"],
       [line |-> 10, package |-> "", module |-> "app.models.ml_models",
        name |-> "SkinCancerModel"] >>

IdleImport ==
    imp = [pc |-> "idle", installed |-> ThirdParty, stmt |-> 0,
           loaded |-> {}, names |-> {}, error |-> "",
           endpoint |-> "", outcome |-> ""]

\* the statement after the last import is the module body (lines 12-60)
Advance(i) ==
    [i EXCEPT !.stmt = @ + 1,
              !.pc = IF i.stmt = Len(predictions_imports) THEN "body" ELSE "importing"]

ImportRaise(i, e) == [i EXCEPT !.pc = "raised", !.error = e]

\* the application imports app.routes.predictions
StartImport ==
    /\ imp.pc = "idle"
    /\ imp' = [imp EXCEPT !.pc = "importing", !.stmt = 1]
    /\ ImportOnly

\* import <package> / from <package> import ...: lines 1-6
ImportPackage ==
    /\ imp.pc = "importing"
    /\ LET s == predictions_imports[imp.stmt]
       IN  /\ s.module = ""
           /\ imp' = IF s.package = "" \/ s.package \in imp.installed
                     THEN Advance(imp)
                     ELSE ImportRaise(imp, "ModuleNotFoundError")
    /\ ImportOnly

\* from <local module> import <name>: lines 8-10. The module's own imports
\* run first, then its body binds its names, then <name> is looked up in it.
ImportFrom ==
    /\ imp.pc = "importing"
    /\ LET s == predictions_imports[imp.stmt]
       IN  /\ s.module # ""
           /\ imp' =
                IF ~(ModuleNeeds(s.module) \subseteq imp.installed)
                THEN ImportRaise(imp, "ModuleNotFoundError")
                ELSE IF s.name \notin ModuleDefines(s.module)
                THEN ImportRaise([imp EXCEPT !.loaded = @ \cup {s.module}],
                                 "ImportError")
                ELSE Advance([imp EXCEPT !.loaded = @ \cup {s.module},
                                         !.names = @ \cup {s.name}])
    /\ ImportOnly

\* lines 32 and 53: the paths the two decorators register
router_endpoints == {"/predict/pneumonia", "/predict/skin_cancer"}

\* lines 34-51 and 55-60: the whole handler body is inside try, and
\* except Exception turns what it raises into HTTPException(500, str(e))
handler_outcome(raised) == IF raised THEN "http_500" ELSE "prediction"

\* A client posts to one of the two paths after the import has ended. The
\* decorators are part of the module body: when an import statement raised,
\* no handler was registered and the request cannot reach one.
RouterRequest ==
    /\ imp.pc \in {"body", "raised"}
    /\ \E e \in router_endpoints, raised \in BOOLEAN :
          imp' = [imp EXCEPT
                     !.endpoint = e,
                     !.outcome = IF imp.pc = "body" THEN handler_outcome(raised)
                                                    ELSE "no_handler"]
    /\ ImportOnly

(***************************************************************************)
(* train.py and the programs that load the pneumonia model it saves        *)
(***************************************************************************)
Root == <<"repo">>
PythonDir == Root \o <<"python">>
WorkingDirs == {Root, PythonDir}
Consumers == {"main", "fix_and_convert", "export_offline_xai"}

\* train.py line 89 and the path each consumer loads (main.py line 14,
\* fix_and_convert.py line 8, export_offline_xai.py line 20), by component
ModelFile(program) ==
    CASE program = "train" -> <<"..", "models", "pneumonia_model_mvp.h5">>
      [] program = "main" -> <<"..", "models", "pneumonia_model.h5">>
      [] program = "fix_and_convert" -> <<"..", "models", "pneumonia_model.h5">>
      [] program = "export_offline_xai" -> <<"models", "pneumonia_model.h5">>

RECURSIVE Normalize(_, _)
Normalize(done, rest) ==
    IF rest = <<>> THEN done
    ELSE IF Head(rest) = ".."
    THEN Normalize(IF done = <<>> THEN <<>> ELSE SubSeq(done, 1, Len(done) - 1),
                   Tail(rest))
    ELSE Normalize(Append(done, Head(rest)), Tail(rest))

\* the file a relative path names for a process whose working directory is cwd
Resolve(cwd, path) == Normalize(<<>>, cwd \o path)

DirOf(file) == SubSeq(file, 1, Len(file) - 1)

\* model files an earlier session may have left
StaleFiles ==
    {Root \o <<"models", "pneumonia_model.h5">>,
     PythonDir \o <<"models", "pneumonia_model.h5">>}

NoFile == <<>>

IdleHandoff ==
    ho = [pc |-> "idle", train_cwd |-> PythonDir, consumer |-> "main",
          consumer_cwd |-> PythonDir, disk |-> {}, saved |-> NoFile,
          load |-> NoFile, outcome |-> "none"]

\* train.py lines 16-39: the two generators read ../data/chest_xray
TR_Data ==
    /\ ho.pc = "idle"
    /\ \E ok \in BOOLEAN :
         ho' = [ho EXCEPT !.pc = IF ok THEN "train_data" ELSE "train_failed"]
    /\ HandoffOnly

\* train.py lines 41-86: build, compile, fit, fine-tune
TR_Fit ==
    /\ ho.pc = "train_data"
    /\ \E ok \in BOOLEAN :
         ho' = [ho EXCEPT !.pc = IF ok THEN "train_fit" ELSE "train_failed"]
    /\ HandoffOnly

\* train.py line 89: model.save('../models/pneumonia_model_mvp.h5')
TR_Save ==
    /\ ho.pc = "train_fit"
    /\ LET file == Resolve(ho.train_cwd, ModelFile("train"))
       IN  ho' = [ho EXCEPT !.pc = "train_saved", !.saved = file,
                            !.disk = @ \cup {file}]
    /\ HandoffOnly

\* the server or a converter is started after train.py has ended
StartConsumer ==
    /\ ho.pc \in {"train_saved", "train_failed"}
    /\ ho' = [ho EXCEPT !.pc = "consumer_start",
                        !.load = Resolve(ho.consumer_cwd, ModelFile(ho.consumer))]
    /\ HandoffOnly

\* main.py line 15 (an uncaught error ends the server), fix_and_convert.py
\* lines 11-16 and export_offline_xai.py lines 21-30 (both report and return)
ConsumerLoad ==
    /\ ho.pc = "consumer_start"
    /\ ho' = [ho EXCEPT !.pc = "consumer_done",
                        !.outcome = IF ho.load \in ho.disk THEN "loaded"
                                    ELSE IF ho.consumer = "main" THEN "raised"
                                    ELSE "reported"]
    /\ HandoffOnly

(***************************************************************************)
(* organize_dataset.py, train_skin_cancer.py, convert_skin_tflite.py      *)
(***************************************************************************)
\* the keys of lesion_types_dict, in the order the dictionary lists them
lesion_types_dict == <<"nv", "mel", "bkl", "bcc", "akiec", "vasc", "df">>
LesionCodes == Range(lesion_types_dict)

\* values the dx column can hold: the seven codes and one that is not a key
DxValues == LesionCodes \cup {"scc"}

\* the letters of a code as positions in the alphabet
Spelling(code) ==
    CASE code = "akiec" -> <<1, 11, 9, 5, 3>>
      [] code = "bcc" -> <<2, 3, 3>>
      [] code = "bkl" -> <<2, 11, 12>>
      [] code = "df" -> <<4, 6>>
      [] code = "mel" -> <<13, 5, 12>>
      [] code = "nv" -> <<14, 22>>
      [] code = "scc" -> <<19, 3, 3>>
      [] code = "vasc" -> <<22, 1, 19, 3>>

\* the order of Python strings: by the first differing letter, a prefix first
RECURSIVE LexBefore(_, _)
LexBefore(a, b) ==
    IF a = <<>> THEN b # <<>>
    ELSE IF b = <<>> THEN FALSE
    ELSE IF Head(a) # Head(b) THEN Head(a) < Head(b)
    ELSE LexBefore(Tail(a), Tail(b))

RECURSIVE Sorted(_)
Sorted(codes) ==
    IF codes = {} THEN <<>>
    ELSE LET first == CHOOSE c \in codes :
                        \A o \in codes \ {c} : LexBefore(Spelling(c), Spelling(o))
         IN  <<first>> \o Sorted(codes \ {first})

\* convert_skin_tflite.py line 43 in dictionary order: a bug the script does
\* not have
skin_labels_DictOrder == lesion_types_dict

\* convert_skin_tflite.py line 43
skin_labels == <<"akiec", "bcc", "bkl", "df", "mel", "nv", "vasc">>

\* the width of the model's output layer: Dense(7)
OutputUnits == 7

IdleSkin ==
    skin = [pc |-> "idle", train_dirs |-> {}, val_dirs |-> {},
            classes |-> <<>>, val_classes |-> <<>>, h5 |-> FALSE,
            temp |-> FALSE, tflite |-> FALSE, labels |-> <<>>]

\* organize_dataset.py lines 12-28: metadata read, split into train and val
OrganizeStart ==
    /\ skin.pc = "idle"
    /\ skin' = [skin EXCEPT !.pc = "organize_train"]
    /\ SkinOnly

\* one iteration of the loop of organize_images: a row whose image is absent
\* is skipped, otherwise the folder of its dx is made and the image copied
organize_images(subset) ==
    /\ skin.pc = "organize_" \o subset
    /\ \E dx \in DxValues, present \in BOOLEAN :
         skin' = IF ~present THEN skin
                 ELSE IF subset = "train"
                 THEN [skin EXCEPT !.train_dirs = @ \cup {dx}]
                 ELSE [skin EXCEPT !.val_dirs = @ \cup {dx}]
    /\ SkinOnly

\* the loop over the rows of one subset ends
OrganizeEnd ==
    /\ skin.pc \in {"organize_train", "organize_val"}
    /\ skin' = [skin EXCEPT !.pc = IF skin.pc = "organize_train"
                                   THEN "organize_val" ELSE "organized"]
    /\ SkinOnly

\* train_skin_cancer.py lines 34-46: flow_from_directory numbers the
\* sub-folders of a directory in sorted order; a missing directory raises
train_generator ==
    /\ skin.pc = "organized"
    /\ skin' = IF skin.train_dirs = {} \/ skin.val_dirs = {}
               THEN [skin EXCEPT !.pc = "train_failed"]
               ELSE [skin EXCEPT !.pc = "flowed",
                                 !.classes = Sorted(skin.train_dirs),
                                 !.val_classes = Sorted(skin.val_dirs)]
    /\ SkinOnly

\* lines 51-97: the one-hot targets must be as wide as the output layer
SK_Fit ==
    /\ skin.pc = "flowed"
    /\ \E ok \in BOOLEAN :
         skin' = [skin EXCEPT !.pc =
                     IF /\ ok
                        /\ Len(skin.classes) = OutputUnits
                        /\ Len(skin.val_classes) = OutputUnits
                     THEN "fitted" ELSE "train_failed"]
    /\ SkinOnly

\* line 100: model.save(MODEL_SAVE_PATH)
SK_Save ==
    /\ skin.pc = "fitted"
    /\ skin' = [skin EXCEPT !.pc = "saved", !.h5 = TRUE]
    /\ SkinOnly

SkinExcept(s) == [s EXCEPT !.pc = "convert_failed"]

\* convert_skin_tflite.py line 13: load_model
SC_Load ==
    /\ skin.pc \in {"saved", "train_failed"}
    /\ \E ok \in BOOLEAN :
         skin' = IF ok /\ skin.h5 THEN [skin EXCEPT !.pc = "loaded"]
                 ELSE SkinExcept(skin)
    /\ SkinOnly

\* line 18: model.export(SAVED_MODEL_DIR)
SC_Export ==
    /\ skin.pc = "loaded"
    /\ \E ok \in BOOLEAN :
         skin' = IF ok THEN [skin EXCEPT !.pc = "exported", !.temp = TRUE]
                 ELSE SkinExcept(skin)
    /\ SkinOnly

\* lines 23-29: converter.convert()
SC_Convert ==
    /\ skin.pc = "exported"
    /\ \E ok \in BOOLEAN :
         skin' = IF ok THEN [skin EXCEPT !.pc = "convertedbytes"]
                 ELSE SkinExcept(skin)
    /\ SkinOnly

\* lines 32-39: the .tflite file is written, the temporary folder removed
SC_WriteAndClean ==
    /\ skin.pc = "convertedbytes"
    /\ \E ok \in BOOLEAN :
         skin' = IF ok THEN [skin EXCEPT !.pc = "cleaned", !.tflite = TRUE,
                                         !.temp = FALSE]
                 ELSE SkinExcept(skin)
    /\ SkinOnly

\* lines 43-45: the labels file
SC_Labels ==
    /\ skin.pc = "cleaned"
    /\ skin' = [skin EXCEPT !.pc = "labelled", !.labels = skin_labels]
    /\ SkinOnly

(***************************************************************************)
(* The stroke feature engineering and risk levels: train_stroke_model.py   *)
(* (engineer_features), convert_stroke_tflite.py (test inference) and the  *)
(* Dart code that create_flutter_helper_code generates.                    *)
(*                                                                         *)
(* A floating-point value is [hundredths, bits]: the real number           *)
(* hundredths / 100 rounded to a significand of `bits` bits; bits = 0 says *)
(* that the number is representable and no rounding took place.  On the    *)
(* inputs below products and sums are integers (exact in both widths), so  *)
(* the division by 100 is the only operation that rounds.                  *)
(***************************************************************************)
\* significand widths: np.float32 in the converter's test, float64 in pandas
\* and Dart's double
F32 == 24
F64 == 53

AgeValues == {39, 40, 41, 60, 61, 65}
GlucoseValues == {140, 141, 200, 201}
BmiValues == {25, 26, 30, 31, 32}

StrokeInputs ==
    [age : AgeValues, hypertension : {0, 1}, heart_disease : {0, 1},
     glucose : GlucoseValues, bmi : BmiValues]

\* the converter's test_input (line 151)
test_input == [age |-> 65, hypertension |-> 1, heart_disease |-> 1,
               glucose |-> 200, bmi |-> 32]

\* an integer as a floating-point value
Whole(v) == [hundredths |-> 100 * v, bits |-> 0]

\* product / 100 in arithmetic of the given width: n / 100 is representable
\* exactly when it is a multiple of 1/4
Div100(product, width) ==
    [hundredths |-> product, bits |-> IF product % 25 = 0 THEN 0 ELSE width]

\* np.where(x > hi, 2, np.where(x > lo, 1, 0))
np_where_band(x, lo, hi) == IF x > hi THEN 2 ELSE IF x > lo THEN 1 ELSE 0

\* a bug the converter's test does not have: >= at the thresholds
py_band_Inclusive(x, lo, hi) == IF x >= hi THEN 2 ELSE IF x >= lo THEN 1 ELSE 0

\* 2 if x > hi else (1 if x > lo else 0)
py_band(x, lo, hi) == IF x > hi THEN 2 ELSE IF x > lo THEN 1 ELSE 0

\* x > hi ? 2.0 : (x > lo ? 1.0 : 0.0)
dart_band(x, lo, hi) == IF x > hi THEN 2 ELSE IF x > lo THEN 1 ELSE 0

\* train_stroke_model.py lines 188-206: the columns added, in order
engineer_features(i) ==
    << Div100(i.age * i.glucose, F64),
       Div100(i.bmi * i.glucose, F64),
       Div100(i.age * i.bmi, F64),
       Whole(i.hypertension + i.heart_disease),
       Whole(i.age * i.age),
       Whole(i.bmi * i.bmi),
       Whole(np_where_band(i.age, 40, 60)),
       Whole(np_where_band(i.glucose, 140, 200)),
       Whole(np_where_band(i.bmi, 25, 30)) >>

\* convert_stroke_tflite.py lines 171-183: the operands are np.float32
engineered(i) ==
    << Div100(i.age * i.glucose, F32),
       Div100(i.bmi * i.glucose, F32),
       Div100(i.age * i.bmi, F32),
       Whole(i.hypertension + i.heart_disease),
       Whole(i.age * i.age),
       Whole(i.bmi * i.bmi),
       Whole(py_band(i.age, 40, 60)),
       Whole(py_band(i.glucose, 140, 200)),
       Whole(py_band(i.bmi, 25, 30)) >>

\* the generated _computeEngineeredFeatures (lines 370-388)
computeEngineeredFeatures(i) ==
    << Div100(i.age * i.glucose, F64),
       Div100(i.bmi * i.glucose, F64),
       Div100(i.age * i.bmi, F64),
       Whole(i.hypertension + i.heart_disease),
       Whole(i.age * i.age),
       Whole(i.bmi * i.bmi),
       Whole(dart_band(i.age, 40, 60)),
       Whole(dart_band(i.glucose, 140, 200)),
       Whole(dart_band(i.bmi, 25, 30)) >>

\* the names of the new columns in the order engineer_features adds them
new_features ==
    << "age_glucose", "bmi_glucose", "age_bmi", "health_risk", "age_squared",
       "bmi_squared", "age_group_risk", "glucose_risk", "bmi_category" >>

\* metadata["engineered_features"] of the converter (lines 248-251)
engineered_features ==
    << "age_glucose", "bmi_glucose", "age_bmi", "health_risk",
       "age_squared", "bmi_squared", "age_group_risk", "glucose_risk", "bmi_category" >>

\* risk percentages, in tenths of a percent
RiskPercentages == {0, 1, 99, 100, 101, 299, 300, 301, 599, 600, 601, 999, 1000}

\* a bug the converter's test does not have: <= at the thresholds
risk_level_Inclusive(p) ==
    IF p <= 100 THEN "Low"
    ELSE IF p <= 300 THEN "Moderate"
    ELSE IF p <= 600 THEN "High"
    ELSE "Very High"

\* convert_stroke_tflite.py lines 212-220
risk_level(p) ==
    IF p < 100 THEN "Low"
    ELSE IF p < 300 THEN "Moderate"
    ELSE IF p < 600 THEN "High"
    ELSE "Very High"

\* the generated getRiskLevel (lines 455-460)
getRiskLevel(p) ==
    IF p < 100 THEN "Low"
    ELSE IF p < 300 THEN "Moderate"
    ELSE IF p < 600 THEN "High"
    ELSE "Very High"

NoFeatures == <<>>

IdleFeat ==
    feat = [pc |-> "idle", input |-> test_input, train |-> NoFeatures,
            test |-> NoFeatures, dart |-> NoFeatures, pct |-> 0,
            py_level |-> "", dart_level |-> ""]

\* a row of the data / a patient entered in the app
Feat_Input ==
    /\ feat.pc = "idle"
    /\ \E i \in StrokeInputs : feat' = [feat EXCEPT !.pc = "input", !.input = i]
    /\ FeatOnly

Feat_Train ==
    /\ feat.pc = "input"
    /\ feat' = [feat EXCEPT !.pc = "trained", !.train = engineer_features(feat.input)]
    /\ FeatOnly

Feat_Test ==
    /\ feat.pc = "trained"
    /\ feat' = [feat EXCEPT !.pc = "tested", !.test = engineered(feat.input)]
    /\ FeatOnly

Feat_Dart ==
    /\ feat.pc = "tested"
    /\ feat' = [feat EXCEPT !.pc = "computed",
                            !.dart = computeEngineeredFeatures(feat.input)]
    /\ FeatOnly

\* the model's output for the input, times 100
Feat_Risk ==
    /\ feat.pc = "computed"
    /\ \E p \in RiskPercentages : feat' = [feat EXCEPT !.pc = "scored", !.pct = p]
    /\ FeatOnly

Feat_Levels ==
    /\ feat.pc = "scored"
    /\ feat' = [feat EXCEPT !.pc = "levelled",
                            !.py_level = risk_level(feat.pct),
                            !.dart_level = getRiskLevel(feat.pct)]
    /\ FeatOnly

(***************************************************************************)
(* train_stroke_model.py: the training pipeline, and the scaler files of   *)
(* both training scripts.  Rows are identities; a fitted scaler is the     *)
(* sequence of the columns it holds a statistic for.                       *)
(***************************************************************************)
MaxRows == 3
MaxSynthetic == 2
Rows == 1..MaxRows
SyntheticRows == (MaxRows + 1)..(MaxRows + MaxSynthetic)

\* train_stroke_model.py line 508
required_features == <<"age", "hypertension", "heart_disease", "avg_glucose_level", "bmi">>

\* column layouts of the CSV train_model reads
CsvLayouts ==
    { <<"id", "age", "chol", "target">>,
      <<"target", "chol", "age">>,
      <<"Glucose", "dataset", "BMI", "Outcome">> }

\* s without the members of drop, in the order of s
RECURSIVE Without(_, _)
Without(s, drop) ==
    IF s = <<>> THEN <<>>
    ELSE IF Head(s) \in drop THEN Without(Tail(s), drop)
    ELSE <<Head(s)>> \o Without(Tail(s), drop)

\* StandardScaler.fit on a matrix with these columns: mean_ and scale_ hold
\* one entry per column, in column order
mean_(columns) == [k \in DOMAIN columns |-> [stat |-> "mean", column |-> columns[k]]]
scale_(columns) == [k \in DOMAIN columns |-> [stat |-> "std", column |-> columns[k]]]

\* a bug save_model_artifacts does not have: the last n entries
Slice_Tail(a, n) == SubSeq(a, Len(a) - n + 1, Len(a))

\* a[:n]
Slice(a, n) == SubSeq(a, 1, n)

\* a bug the pipeline does not have: the scaler is fitted before the split
ScalerFitRows_All(s) == s.train \cup s.test

\* scaler.fit_transform(X_train) fits on the rows of X_train
ScalerFitRows(s) == s.train

IdleStp ==
    stp = [pc |-> "idle", program |-> "", use_smote |-> FALSE,
           use_feature_engineering |-> FALSE, cleaned |-> {}, split_train |-> {},
           train |-> {}, test |-> {}, smote_input |-> {}, synthetic |-> {},
           columns |-> <<>>, log |-> <<>>, fit_rows |-> {}, mean |-> <<>>,
           scale |-> <<>>, files |-> {}, evaluated |-> {}]

\* open(path, 'w') replaces what the path held
Unwritten(files, paths) == {f \in files : f.path \notin paths}

Logged(s, event) == [s EXCEPT !.log = Append(@, event)]

\* lines 497-520: the flags, and the early return when stroke.csv is missing
SP_Start ==
    /\ stp.pc = "idle"
    /\ \E smote \in BOOLEAN, fe \in BOOLEAN, csv \in BOOLEAN :
          stp' = [stp EXCEPT !.program = "train_stroke_model",
                             !.use_smote = smote, !.use_feature_engineering = fe,
                             !.pc = IF csv THEN "loaded" ELSE "returned"]
    /\ PipelineOnly

\* lines 521-535: read, analyze, clean_data (rows may be dropped), X and y
SP_Clean ==
    /\ stp.pc = "loaded"
    /\ \E kept \in SUBSET Rows :
          stp' = [Logged(stp, "clean") EXCEPT !.pc = "cleaned", !.cleaned = kept,
                                              !.columns = required_features]
    /\ PipelineOnly

\* lines 537-544: train_test_split; it raises when a side would be empty
SP_Split ==
    /\ stp.pc = "cleaned"
    /\ IF Cardinality(stp.cleaned) < 2
       THEN stp' = [stp EXCEPT !.pc = "raised"]
       ELSE \E held \in (SUBSET stp.cleaned) \ {{}, stp.cleaned} :
               stp' = [Logged(stp, "split") EXCEPT
                          !.pc = "split", !.test = held,
                          !.train = stp.cleaned \ held,
                          !.split_train = stp.cleaned \ held]
    /\ PipelineOnly

\* lines 551-557: engineer_features on X_train and on X_test appends columns
SP_Engineer ==
    /\ stp.pc = "split"
    /\ stp' = IF stp.use_feature_engineering
              THEN [Logged(stp, "engineer") EXCEPT
                       !.pc = "engineered", !.columns = @ \o new_features]
              ELSE [stp EXCEPT !.pc = "engineered"]
    /\ PipelineOnly

\* lines 559-576: SMOTETomek.fit_resample(X_train, y_train) adds synthetic
\* rows and removes rows that form Tomek links
SP_Smote ==
    /\ stp.pc = "engineered"
    /\ IF ~stp.use_smote
       THEN stp' = [stp EXCEPT !.pc = "resampled"]
       ELSE \E made \in SUBSET SyntheticRows :
            \E link \in SUBSET (stp.train \cup made) :
               /\ Cardinality(link) <= 1
               /\ stp' = [Logged(stp, "smote") EXCEPT
                             !.pc = "resampled", !.smote_input = stp.train,
                             !.synthetic = made,
                             !.train = (stp.train \cup made) \ link]
    /\ PipelineOnly

\* lines 578-586: the scaler is fitted on X_train and applied to both parts
SP_Scale ==
    /\ stp.pc = "resampled"
    /\ stp' = [Logged(stp, "scale") EXCEPT
                  !.pc = "scaled", !.fit_rows = ScalerFitRows(stp),
                  !.mean = mean_(stp.columns), !.scale = scale_(stp.columns)]
    /\ PipelineOnly

\* lines 588-650: class weights, build_improved_model, model.fit
SP_Fit ==
    /\ stp.pc = "scaled"
    /\ \E ok \in BOOLEAN :
          stp' = [stp EXCEPT !.pc = IF ok THEN "fitted" ELSE "raised"]
    /\ PipelineOnly

\* lines 656-660: evaluate_model(model, X_test_scaled, y_test, all_features)
SP_Evaluate ==
    /\ stp.pc = "fitted"
    /\ stp' = [Logged(stp, "evaluate") EXCEPT !.pc = "evaluated",
                                               !.evaluated = stp.test]
    /\ PipelineOnly

\* save_model_artifacts, lines 440-460: the two scaler files
save_model_artifacts ==
    /\ stp.pc = "evaluated"
    /\ LET original_features == required_features
           n == Len(original_features)
       IN  stp' = [stp EXCEPT
              !.pc = "saved",
              !.files = Unwritten(@, {"assets/stroke_scaler.json", "models/scaler_complete.json"}) \cup
                 { [path |-> "assets/stroke_scaler.json",
                    mean |-> Slice(stp.mean, n), std |-> Slice(stp.scale, n),
                    feature_names |-> original_features],
                   [path |-> "models/scaler_complete.json",
                    mean |-> stp.mean, std |-> stp.scale,
                    feature_names |-> stp.columns] }]
    /\ PipelineOnly

\* train_model, lines 106-132: the CSV is read, the target found, id and
\* dataset dropped, X = df.drop(target_col, axis=1)
TMS_Prepare ==
    /\ stp.pc = "idle"
    /\ \E name \in ModelNames, layout \in CsvLayouts, col \in TargetArgs :
          LET target == DetectTarget(Range(layout), col)
          IN  stp' = IF target \notin Range(layout)
                     THEN [stp EXCEPT !.program = name, !.pc = "returned"]
                     ELSE [stp EXCEPT !.program = name, !.pc = "prepared",
                                      !.cleaned = Rows,
                                      !.columns = Without(layout, drop_cols \cup {target})]
    /\ PipelineOnly

\* train_model, lines 139-157: split, StandardScaler, the scaler file
TMS_SplitScale ==
    /\ stp.pc = "prepared"
    /\ \E held \in (SUBSET stp.cleaned) \ {{}, stp.cleaned} :
          LET s == [stp EXCEPT !.train = stp.cleaned \ held, !.test = held,
                               !.split_train = stp.cleaned \ held]
          IN  stp' = [s EXCEPT
                 !.pc = "saved", !.fit_rows = ScalerFitRows(s),
                 !.mean = mean_(s.columns), !.scale = scale_(s.columns),
                 !.files = Unwritten(@, {scaler_path(stp.program)}) \cup
                    { [path |-> scaler_path(stp.program),
                       mean |-> mean_(s.columns), std |-> scale_(s.columns),
                       feature_names |-> s.columns] }]
    /\ PipelineOnly

\* the script has ended; the files stay and either script may be run again
SP_Again ==
    /\ stp.pc \in {"saved", "returned", "raised"}
    /\ stp' = [pc |-> "idle", program |-> "", use_smote |-> FALSE,
               use_feature_engineering |-> FALSE, cleaned |-> {}, split_train |-> {},
               train |-> {}, test |-> {}, smote_input |-> {}, synthetic |-> {},
               columns |-> <<>>, log |-> <<>>, fit_rows |-> {}, mean |-> <<>>,
               scale |-> <<>>, files |-> stp.files, evaluated |-> {}]
    /\ PipelineOnly

(***************************************************************************)
(* app/models/ml_models.py: ExplainableHealthcareModel.  Estimators are    *)
(* numbered in the order they are constructed; an explainer is the number  *)
(* of the estimator it was built from.                                     *)
(***************************************************************************)
MaxModels == 3
NoModel == 0
ModelTypes == {"random_forest", "gradient_boosting", "svm"}
PickleFiles == {"a.pkl", "b.pkl"}

\* shap.TreeExplainer(model) needs the trees of a fitted estimator
TreeExplainerBuilds(x, m) == m # NoModel /\ m \in x.fitted

\* lines 20-25
NewInstance(model_type) ==
    [model_type |-> model_type, model |-> NoModel, explainer |-> NoModel,
     made |-> 0, fitted |-> {}, disk |-> {}, succeeded |-> FALSE,
     op |-> "__init__", result |-> "None"]

IdleXm == xm = NewInstance("random_forest")

Called(x, op, result) == [x EXCEPT !.op = op, !.result = result]

\* train, lines 27-55: a new estimator for a known model_type, fit, explainer
XM_Train ==
    /\ xm.made < MaxModels
    /\ \E fit_ok \in BOOLEAN, shap_ok \in BOOLEAN :
          LET known == xm.model_type \in {"random_forest", "gradient_boosting"}
              built == IF known
                       THEN [xm EXCEPT !.made = @ + 1, !.model = xm.made + 1]
                       ELSE xm
          IN  xm' =
                IF built.model = NoModel
                THEN Called(built, "train", "AttributeError")
                ELSE IF ~fit_ok
                THEN Called(built, "train", "raised")
                ELSE LET trained_model == [built EXCEPT !.fitted = @ \cup {built.model}]
                     IN  IF ~shap_ok
                         THEN Called(trained_model, "train", "raised")
                         ELSE Called([trained_model EXCEPT
                                         !.explainer = trained_model.model,
                                         !.succeeded = TRUE],
                                     "train", "None")
    /\ ExplainOnly

\* explain_with_shap, lines 65-87
explain_with_shap(x) ==
    IF x.explainer = NoModel THEN "ValueError" ELSE "explanation"

XM_Explain ==
    /\ \E shap_ok \in BOOLEAN :
          xm' = Called(xm, "explain_with_shap",
                       IF shap_ok \/ xm.explainer = NoModel
                       THEN explain_with_shap(xm) ELSE "raised")
    /\ ExplainOnly

\* save_model, lines 141-151: the pickle holds self.model, fitted or not
save_model ==
    /\ \E filepath \in PickleFiles :
          xm' = Called([xm EXCEPT !.disk =
                           {f \in @ : f.path # filepath} \cup
                           { [path |-> filepath, model |-> xm.model,
                              model_type |-> xm.model_type] }],
                       "save_model", "None")
    /\ ExplainOnly

\* load_model, lines 153-164: the fields are assigned before the explainer
\* is built
load_model ==
    /\ \E filepath \in PickleFiles, shap_ok \in BOOLEAN :
          IF \A f \in xm.disk : f.path # filepath
          THEN xm' = Called(xm, "load_model", "FileNotFoundError")
          ELSE LET f == CHOOSE g \in xm.disk : g.path = filepath
                   loaded == [xm EXCEPT !.model = f.model,
                                        !.model_type = f.model_type]
               IN  xm' =
                     IF shap_ok /\ TreeExplainerBuilds(loaded, loaded.model)
                     THEN Called([loaded EXCEPT !.explainer = loaded.model,
                                                !.succeeded = TRUE],
                                 "load_model", "None")
                     ELSE Called(loaded, "load_model", "raised")
    /\ ExplainOnly


IdleStroke == IdleCli /\ IdleFeat /\ IdleStp /\ IdleXm

(***************************************************************************)
(* Specifications                                                                                    *)
(***************************************************************************)
\* model files left on disk by earlier training runs
TrainedInputs ==
    {stroke_keras_model_path, robust_h5_path, export_MODEL_PATH}
        \cup {keras_path(n) : n \in ModelNames}

IdleScript ==
    /\ script = "none" /\ pc = "idle" /\ arg = "" /\ ret = "none"
    /\ attempts = 0 /\ failures = 0 /\ recovery = FALSE /\ loads = 0
    /\ written = {} /\ df_cols = NoCols /\ req_col = "" /\ target_col = ""
    /\ trained = {} /\ converted = {}

\* the converters, run in any order on a disk that holds any of their inputs
InitScripts ==
    /\ fs \in SUBSET TrainedInputs /\ IdleScript
    /\ net = DefaultNet /\ IdleServe /\ IdleTf /\ IdleImport /\ IdleHandoff /\ IdleSkin
    /\ IdleStroke

NextScripts ==
    \/ StartClinical \/ CC_Check \/ CC_Load \/ CC_Convert \/ CC_Save
    \/ Alt_Save \/ Alt_Convert \/ Alt_Write \/ Alt_Rmtree \/ create_flutter_guide
    \/ StartRobust \/ CR_Load \/ CR_Concrete \/ CR_Convert \/ CR_Save
    \/ StartExport \/ EX_Check \/ EX_Load \/ EX_Build \/ EX_Convert
    \/ EX_ConvertPlain \/ EX_Write \/ EX_Weights
    \/ StartStroke \/ CK_Check \/ CK_Load \/ CK_Convert \/ CK_Save
    \/ CK_Test \/ CK_Metadata
    \/ Finish

SpecScripts == InitScripts /\ [][NextScripts]_vars

\* the Heart / Diabetes pipeline: Clinical_Risk_Prediction.py, then
\* Clinical_Risk_convter.py, on a disk that holds no artifact yet
InitClinical ==
    /\ fs = {} /\ IdleScript
    /\ net = DefaultNet /\ IdleServe /\ IdleTf /\ IdleImport /\ IdleHandoff /\ IdleSkin
    /\ IdleStroke

NextClinical ==
    \/ StartTrain \/ TM_LoadCsv \/ TM_DetectTarget \/ TM_Preprocess
    \/ TM_SplitScale \/ TM_Fit \/ TM_Save
    \/ StartClinical \/ CC_Check \/ CC_Load \/ CC_Convert \/ CC_Save
    \/ Alt_Save \/ Alt_Convert \/ Alt_Write \/ Alt_Rmtree \/ create_flutter_guide
    \/ Finish

SpecClinical == InitClinical /\ [][NextClinical]_vars

\* the two PyTorch services, each with its event loop, serving any requests
InitServe ==
    /\ net \in Nets /\ IdleServe
    /\ fs = {} /\ IdleScript /\ IdleTf /\ IdleImport /\ IdleHandoff /\ IdleSkin
    /\ IdleStroke

NextServe ==
    \E r \in Requests :
        \/ Arrive(r) \/ Decode(r) \/ Infer(r)
        \/ GenForward(r) \/ GenBackward(r) \/ GenCam(r)

SpecServe == InitServe /\ [][NextServe]_vars

\* the TensorFlow service handling one request after another
InitTf ==
    /\ IdleTf
    /\ fs = {} /\ IdleScript /\ net = DefaultNet /\ IdleServe
    /\ IdleImport /\ IdleHandoff /\ IdleSkin /\ IdleStroke

NextTf == TF_Predict \/ TF_Explain \/ TF_Respond \/ TF_Next

SpecTf == InitTf /\ [][NextTf]_vars

\* the router module imported into an environment with any set of packages
InitImport ==
    /\ \E installed \in SUBSET ThirdParty :
          imp = [pc |-> "idle", installed |-> installed, stmt |-> 0,
                 loaded |-> {}, names |-> {}, error |-> "",
                 endpoint |-> "", outcome |-> ""]
    /\ fs = {} /\ IdleScript /\ net = DefaultNet /\ IdleServe
    /\ IdleTf /\ IdleHandoff /\ IdleSkin /\ IdleStroke

NextImport == StartImport \/ ImportPackage \/ ImportFrom \/ RouterRequest

SpecImport == InitImport /\ [][NextImport]_vars

\* train.py, then one consumer, each from either directory of the checkout
InitHandoff ==
    /\ \E t \in WorkingDirs, c \in Consumers, w \in WorkingDirs,
           stale \in SUBSET StaleFiles :
          ho = [pc |-> "idle", train_cwd |-> t, consumer |-> c,
                consumer_cwd |-> w, disk |-> stale, saved |-> NoFile,
                load |-> NoFile, outcome |-> "none"]
    /\ fs = {} /\ IdleScript /\ net = DefaultNet /\ IdleServe
    /\ IdleTf /\ IdleImport /\ IdleSkin /\ IdleStroke

NextHandoff == TR_Data \/ TR_Fit \/ TR_Save \/ StartConsumer \/ ConsumerLoad

SpecHandoff == InitHandoff /\ [][NextHandoff]_vars

\* the skin-cancer pipeline on any metadata
InitSkin ==
    /\ IdleSkin
    /\ fs = {} /\ IdleScript /\ net = DefaultNet /\ IdleServe
    /\ IdleTf /\ IdleImport /\ IdleHandoff /\ IdleStroke

NextSkin ==
    \/ OrganizeStart \/ organize_images("train") \/ organize_images("val")
    \/ OrganizeEnd \/ train_generator \/ SK_Fit \/ SK_Save
    \/ SC_Load \/ SC_Export \/ SC_Convert \/ SC_WriteAndClean \/ SC_Labels

SpecSkin == InitSkin /\ [][NextSkin]_vars

\* convert_stroke_tflite.py run from the command line, any number of times
InitCli ==
    /\ fs \in SUBSET {stroke_keras_model_path} /\ IdleScript /\ IdleStroke
    /\ net = DefaultNet /\ IdleServe /\ IdleTf /\ IdleImport /\ IdleHandoff /\ IdleSkin

NextCli ==
    \/ Cli_Main \/ CK_Check \/ CK_Load \/ CK_Convert \/ CK_Save \/ CK_Test
    \/ CK_Metadata \/ batch_convert \/ Cli_Single \/ create_flutter_helper_code
    \/ Cli_Again

SpecCli == InitCli /\ [][NextCli]_vars

\* the three implementations on any input, then the two risk-level functions
InitFeat ==
    /\ fs = {} /\ IdleScript /\ IdleStroke
    /\ net = DefaultNet /\ IdleServe /\ IdleTf /\ IdleImport /\ IdleHandoff /\ IdleSkin

NextFeat ==
    Feat_Input \/ Feat_Train \/ Feat_Test \/ Feat_Dart \/ Feat_Risk \/ Feat_Levels

SpecFeat == InitFeat /\ [][NextFeat]_vars

\* the two training scripts, run any number of times
InitPipeline ==
    /\ fs = {} /\ IdleScript /\ IdleStroke
    /\ net = DefaultNet /\ IdleServe /\ IdleTf /\ IdleImport /\ IdleHandoff /\ IdleSkin

NextPipeline ==
    \/ SP_Start \/ SP_Clean \/ SP_Split \/ SP_Engineer \/ SP_Smote \/ SP_Scale
    \/ SP_Fit \/ SP_Evaluate \/ save_model_artifacts
    \/ TMS_Prepare \/ TMS_SplitScale \/ SP_Again

SpecPipeline == InitPipeline /\ [][NextPipeline]_vars

\* one ExplainableHealthcareModel instance and the calls made on it
InitExplain ==
    /\ \E model_type \in ModelTypes : xm = NewInstance(model_type)
    /\ fs = {} /\ IdleScript /\ IdleCli /\ IdleFeat /\ IdleStp
    /\ net = DefaultNet /\ IdleServe /\ IdleTf /\ IdleImport /\ IdleHandoff /\ IdleSkin

NextExplain == XM_Train \/ XM_Explain \/ save_model \/ load_model

SpecExplain == InitExplain /\ [][NextExplain]_vars

(***************************************************************************)
(* Claims about the scripts                                                *)
(***************************************************************************)
ConversionScripts ==
    {"convert_to_tflite", "export_model", "convert_robust", "convert_keras_to_tflite"}

\* C1 as stated: once a converter.convert() call has raised, the script has
\* made that one attempt only, has entered no recovery path and has ended the
\* conversion.
C1_NoSecondAttempt ==
    (script \in ConversionScripts /\ failures >= 1)
        => (attempts = 1 /\ ~recovery /\ pc = "done")

\* C1 amended: after a failed converter.convert() call, convert_robust and
\* convert_keras_to_tflite only report and end (one attempt, no recovery,
\* nothing written, a normal return), while convert_to_tflite and
\* export_model enter their fallback; no script converts more than twice, and
\* a second attempt is made only on the fallback path.
C1_OnlyClinicalAndExportRetry ==
    /\ (script \in {"convert_robust", "convert_keras_to_tflite"} /\ failures >= 1)
          => /\ attempts = 1 /\ ~recovery /\ pc = "done"
             /\ written = {} /\ ret \in {"None", "False"}
    /\ (script \in {"convert_to_tflite", "export_model"} /\ failures >= 1)
          => recovery
    /\ attempts <= 2
    /\ attempts = 2 => (recovery /\ script \in {"convert_to_tflite", "export_model"})

C1_Witness ==
    /\ script = "convert_robust" /\ failures = 1 /\ attempts = 1 /\ pc = "done"

\* C9: a converter that did not find its input Keras model has returned False,
\* has written nothing and has called neither load_model nor convert().
C9_MissingInputReturnsFalse ==
    /\ (script = "convert_to_tflite" /\ pc # "check" /\ keras_path(arg) \notin fs)
          => /\ pc = "done" /\ ret = "False"
             /\ written = {} /\ loads = 0 /\ attempts = 0
    /\ (script = "convert_keras_to_tflite" /\ pc # "check"
            /\ stroke_keras_model_path \notin fs)
          => /\ pc = "done" /\ ret = "False"
             /\ written = {} /\ loads = 0 /\ attempts = 0

C9_Witness ==
    /\ script = "convert_keras_to_tflite" /\ pc = "done" /\ ret = "False"
    /\ stroke_keras_model_path \notin fs

\* no requested or alternative target name is a column of the data frame
NoTargetColumn == req_col \notin df_cols /\ Range(alternatives) \cap df_cols = {}

\* C10: when the CSV is missing, or holds neither the requested target column
\* nor an alternative, train_model returns None and has written no file.
C10_NoTargetWritesNothing ==
    (script = "train_model" /\ pc = "done" /\ (df_cols = NoCols \/ NoTargetColumn))
        => (ret = "None" /\ written = {})

C10_Witness ==
    /\ script = "train_model" /\ pc = "done" /\ ret = "None"
    /\ df_cols # NoCols /\ NoTargetColumn /\ "sex" \in df_cols

\* C8 as stated: once train_model and convert_to_tflite have both succeeded
\* for a name and its Flutter guide is written, every file the guide lists
\* under files_needed exists in assets/.
C8_GuideFilesExist ==
    \A n \in ModelNames :
        (n \in trained /\ n \in converted /\ guide_path(n) \in fs)
            => \A i \in DOMAIN files_needed(n) : ("assets/" \o files_needed(n)[i]) \in fs

(***************************************************************************)
(* Claims about the PyTorch services                                       *)
(***************************************************************************)
Answered(r) == req[r].outcome = "json"

C3_LabelAndConfidence ==
    tf.pc = "done" =>
        /\ (tf.prediction = "PNEUMONIA") <=> (2 * tf.score > ScoreDen)
        /\ (tf.prediction = "NORMAL") <=> (2 * tf.score <= ScoreDen)
        /\ tf.prediction = "PNEUMONIA" => tf.confidence = FormatPercent(tf.score)
        /\ tf.prediction = "NORMAL" => tf.confidence = FormatPercent(ScoreDen - tf.score)
        /\ 5000 <= tf.confidence /\ tf.confidence <= 10000
        /\ (tf.score = ScoreHalf) => (tf.prediction = "NORMAL" /\ tf.confidence = 5000)

C3_Witness ==
    tf.pc = "done" /\ tf.score = ScoreHalf /\ tf.prediction = "NORMAL"

(***************************************************************************)
(* Claims about the router module, the handoff and the label file          *)
(***************************************************************************)
\* C5: with every package installed, the import of app/routes/predictions.py
\* gets past its import statements with SkinCancerModel bound, so that the
\* router and its skin-cancer endpoint exist.
C5_RouterLoads ==
    (imp.installed = ThirdParty /\ imp.pc \notin {"idle", "importing"})
        => (imp.pc = "body" /\ "SkinCancerModel" \in imp.names)

\* C6: when train.py has saved its model and a consumer started afterwards
\* looks in the same directory, the file the consumer loads is the file
\* train.py saved, and the consumer finds it.
C6_ConsumerLoadsSavedFile ==
    (/\ ho.pc = "consumer_done" /\ ho.saved # NoFile
     /\ DirOf(ho.load) = DirOf(ho.saved))
        => (ho.load = ho.saved /\ ho.outcome = "loaded")

\* C7: the labels written to skin_labels.txt are the seven keys of
\* lesion_types_dict in alphabetical order, and when each of them has a
\* training folder, line i is the class flow_from_directory numbered i - 1.
C7_LabelsAligned ==
    skin.labels # <<>> =>
        /\ skin.labels = Sorted(LesionCodes)
        /\ Len(skin.labels) = OutputUnits
        /\ (LesionCodes \subseteq skin.train_dirs) =>
               \A i \in 1..OutputUnits : skin.labels[i] = skin.classes[i]

C7_Witness ==
    /\ skin.pc = "labelled" /\ skin.labels # <<>>
    /\ LesionCodes \subseteq skin.train_dirs
    /\ skin.classes[6] = "nv"

(***************************************************************************)
(* Claims about the stroke converter                                       *)
(***************************************************************************)
\* C11: when convert_keras_to_tflite has ended it has returned True or False
\* (no exception left it), True exactly when this call wrote both the .tflite
\* file and its _metadata.json sidecar; and a single-conversion run whose
\* conversion did not return True exits with status 1 and has not generated
\* the Flutter helper code.
C11_TrueIffBothWritten ==
    /\ At("convert_keras_to_tflite", "done") =>
          /\ ret \in {"True", "False"}
          /\ (ret = "True") <=> ({arg, stroke_metadata_path(arg)} \subseteq written)
    /\ (cli.pc = "exited" /\ ~cli.batch /\ ret # "True") =>
          (cli.status = 1 /\ ~cli.helper)

\* --flutter-code was asked for, the .tflite file was written, a later step
\* raised: the process has exited with status 1
C11_Witness ==
    /\ cli.pc = "exited" /\ ~cli.batch /\ cli.flutter_code
    /\ ret = "False" /\ arg \in written
    /\ cli.status = 1 /\ ~cli.helper

C16_SameRiskLevel ==
    feat.pc = "levelled" =>
        /\ feat.py_level = feat.dart_level
        /\ feat.py_level = (CASE feat.pct < 100 -> "Low"
                              [] feat.pct >= 100 /\ feat.pct < 300 -> "Moderate"
                              [] feat.pct >= 300 /\ feat.pct < 600 -> "High"
                              [] feat.pct >= 600 -> "Very High")

C16_Witness ==
    feat.pc = "levelled" /\ feat.pct = 300 /\ feat.dart_level = "High"

(***************************************************************************)
(* Claims about the training pipelines                                     *)
(***************************************************************************)
Precedes(log, a, b) ==
    \A i, j \in DOMAIN log : (log[i] = a /\ log[j] = b) => i < j

\* C13: in train_stroke_model the split comes before feature engineering,
\* SMOTE and scaling; SMOTE is given the training part only and the scaler
\* is fitted on training rows only; the rows given to evaluate_model are the
\* test part of the split: rows of the cleaned data, none synthetic.
C13_TestSetUntouched ==
    stp.program = "train_stroke_model" =>
        /\ Precedes(stp.log, "split", "engineer")
        /\ Precedes(stp.log, "split", "smote")
        /\ Precedes(stp.log, "split", "scale")
        /\ stp.smote_input \subseteq stp.split_train
        /\ stp.smote_input \cap stp.test = {}
        /\ stp.fit_rows \cap stp.test = {}
        /\ stp.fit_rows \subseteq stp.split_train \cup stp.synthetic
        /\ stp.pc \in {"evaluated", "saved"} =>
              /\ stp.evaluated = stp.test
              /\ stp.evaluated \subseteq stp.cleaned
              /\ stp.evaluated \cap stp.synthetic = {}
              /\ stp.evaluated \cap stp.fit_rows = {}

\* a run with SMOTE and feature engineering has evaluated its model
C13_Witness ==
    /\ stp.program = "train_stroke_model" /\ stp.pc = "evaluated"
    /\ stp.use_smote /\ stp.use_feature_engineering
    /\ stp.synthetic # {} /\ stp.synthetic \subseteq stp.fit_rows
    /\ stp.evaluated # {}

\* C14: in every scaler file written, mean, std and feature_names have the
\* same length and entry i of each belongs to the same column;
\* assets/stroke_scaler.json holds the five original features in the order
\* age, hypertension, heart_disease, avg_glucose_level, bmi, with or without
\* feature engineering.
C14_ScalerFilesAligned ==
    \A f \in stp.files :
        /\ Len(f.mean) = Len(f.feature_names)
        /\ Len(f.std) = Len(f.feature_names)
        /\ \A k \in DOMAIN f.feature_names :
              /\ f.mean[k] = [stat |-> "mean", column |-> f.feature_names[k]]
              /\ f.std[k] = [stat |-> "std", column |-> f.feature_names[k]]
        /\ f.path = "assets/stroke_scaler.json" =>
              f.feature_names =
                 <<"age", "hypertension", "heart_disease", "avg_glucose_level", "bmi">>

\* the three kinds of scaler file exist, the stroke ones written by a run
\* with feature engineering
C14_Witness ==
    /\ stp.pc = "saved" /\ stp.program = "train_stroke_model"
    /\ stp.use_feature_engineering
    /\ Len(stp.mean) = Len(required_features) + Len(new_features)
    /\ \E f \in stp.files : f.path = "assets/stroke_scaler.json"
    /\ \E f \in stp.files : f.path = "models/scaler_complete.json"
    /\ \E f \in stp.files : f.path = scaler_path("Heart")

\* C15: every request to POST /predict/pneumonia or POST /predict/skin_cancer
\* of the router ends either in the JSON prediction or in an HTTP 500 error
\* carrying the text of the exception.
C15_PredictionOrHttp500 ==
    imp.endpoint \in router_endpoints => imp.outcome \in {"prediction", "http_500"}

\* C17: convert_to_tflite returns True exactly when this call wrote the
\* TFLite file assets/<name>_model.tflite, by the primary path or by
\* try_alternative_conversion.
C17_TrueIffWritten ==
    At("convert_to_tflite", "done") =>
        (ret = "True" <=> tflite_path(arg) \in written)

\* C18: when try_alternative_conversion has finished, with either result,
\* the temporary SavedModel directory it created no longer exists.
C18_NoTemporaryLeft ==
    (At("convert_to_tflite", "done") /\ recovery) => saved_model_path \notin fs

(***************************************************************************)
(* Claims about ExplainableHealthcareModel                                 *)
(***************************************************************************)
\* C19: explain_with_shap raises ValueError whenever no train or load_model
\* has completed successfully on the instance, and once one has, the
\* explainer is set and was built from the instance's current model.
C19_ExplainerOfCurrentModel ==
    /\ (xm.op = "explain_with_shap" /\ ~xm.succeeded) => xm.result = "ValueError"
    /\ xm.succeeded => (xm.explainer # NoModel /\ xm.explainer = xm.model)

====
